---- MODULE Spec2Model ----
(***************************************************************************)
(* Model of the filesystem shim of fs: mkdir_ and scandir_ (src/dir.cc)    *)
(* and file_rename_ (src/rename.cc), running against a small filesystem.   *)
(*                                                                         *)
(* Strings are sequences of one-character strings, so that strcmp, strlen, *)
(* p[strlen(p) - 1] and std::string concatenation are computed and not     *)
(* assumed.  A location of the filesystem is the sequence of the names on  *)
(* the way from the working directory to it.                               *)
(***************************************************************************)
EXTENDS Integers, Sequences, FiniteSets, TLC

VARIABLES fs, op, pc, mk, sc, rn, fs0, reqs, live, err

vars == <<fs, op, pc, mk, sc, rn, fs0, reqs, live, err>>

-----------------------------------------------------------------------------
(* Bounds of the model.                                                    *)

\* Largest number of paths given to one call of mkdir_.
MaxMkdirPaths == 3

\* Largest number of paths given to one call of scandir_.
MaxScanPaths == 3

-----------------------------------------------------------------------------
(* Native result codes (uv-errno.h values on Linux).                       *)

UV_EEXIST == -17
UV_ENOENT == -2
UV_ENOTDIR == -20
UV_EACCES == -13
UV_EISDIR == -21
UV_EINVAL == -22
UV_ENOTEMPTY == -39
UV_EBUSY == -16
UV_EOF == -4095

\* uv_dirent_type_t
UV_DIRENT_UNKNOWN == 0
UV_DIRENT_FILE == 1
UV_DIRENT_DIR == 2

-----------------------------------------------------------------------------
(* Strings and paths.                                                      *)

SLASH == "/"
DOT == <<".">>

NameA == <<"a">>
NameB == <<"b">>
NameC == <<"c">>

\* The path strings a caller passes in.
PathChoices ==
  { <<".">>, <<"a">>, <<"a", "/">>, <<"a", "/", "c">>, <<"b">>, <<>> }

MkdirPaths == { <<".">>, <<"a">>, <<"a", "/", "c">>, <<"b">>, <<>> }

ScanPaths == { <<".">>, <<"a">>, <<"a", "/">>, <<"b">>, <<>> }

\* Sequences over S of length at most n.
SeqsUpTo(S, n) == UNION { [1..k -> S] : k \in 0..n }

MkdirVectors == SeqsUpTo(MkdirPaths, MaxMkdirPaths)

ScanVectors == SeqsUpTo(ScanPaths, MaxScanPaths)

\* The components of a path string, split at the separator.
RECURSIVE SplitFrom(_, _, _, _)
SplitFrom(p, k, cur, acc) ==
  LET flushed == IF cur = <<>> THEN acc ELSE Append(acc, cur)
  IN IF k > Len(p) THEN flushed
     ELSE IF p[k] = SLASH THEN SplitFrom(p, k + 1, <<>>, flushed)
     ELSE SplitFrom(p, k + 1, Append(cur, p[k]), acc)

Components(p) == SplitFrom(p, 1, <<>>, <<>>)

\* The location a relative path string names ("." components dropped).
Resolve(p) == SelectSeq(Components(p), LAMBDA c : c # DOT)

TrailingSlash(p) == Len(p) > 0 /\ p[Len(p)] = SLASH

-----------------------------------------------------------------------------
(* The filesystem.                                                         *)

Root == <<>>

\* The locations below the working directory; those at depth 2 are leaves.
Locs == { <<NameA>>, <<NameB>>, <<NameA, NameC>>, <<NameB, NameC>> }

Parent(loc) == SubSeq(loc, 1, Len(loc) - 1)

NoEnt == [kind |-> "none", mode |-> 0]
RegFile == [kind |-> "file", mode |-> 420]
DirNode(m) == [kind |-> "dir", mode |-> m]

\* 0755 and 0555
Modes == {493, 365}

Nodes == {NoEnt, RegFile} \cup { DirNode(m) : m \in Modes }

Lookup(f, loc) ==
  IF loc = Root THEN DirNode(493)
  ELSE IF loc \in Locs THEN f[loc]
  ELSE NoEnt

IsDir(f, loc) == Lookup(f, loc).kind = "dir"
Exists(f, loc) == Lookup(f, loc).kind # "none"

\* Owner write permission (0200).
Writable(f, loc) == (Lookup(f, loc).mode \div 128) % 2 = 1

\* Every entry lies in a directory.
WellFormed(f) ==
  \A loc \in Locs : Exists(f, loc) => IsDir(f, Parent(loc))

FileSystems == { f \in [Locs -> Nodes] : WellFormed(f) }

Children(f, d) == { loc \in Locs : Parent(loc) = d /\ Exists(f, loc) }

DirentType(node) ==
  IF node.kind = "file" THEN UV_DIRENT_FILE
  ELSE IF node.kind = "dir" THEN UV_DIRENT_DIR
  ELSE UV_DIRENT_UNKNOWN

-----------------------------------------------------------------------------
(* The native calls, in blocking mode (no callback).                       *)

\* mkdir(2) behind uv_fs_mkdir: the result code and the filesystem it leaves.
\* Every path a caller passes in names the working directory or a location
\* of Locs.
uv_fs_mkdir(f, p, mode) ==
  LET loc == Resolve(p)
  IN IF p = <<>> THEN [res |-> UV_ENOENT, fs |-> f]
     ELSE IF Exists(f, loc) THEN [res |-> UV_EEXIST, fs |-> f]
     ELSE IF ~Exists(f, Parent(loc)) THEN [res |-> UV_ENOENT, fs |-> f]
     ELSE IF ~IsDir(f, Parent(loc)) THEN [res |-> UV_ENOTDIR, fs |-> f]
     ELSE IF ~Writable(f, Parent(loc)) THEN [res |-> UV_EACCES, fs |-> f]
     ELSE [res |-> 0, fs |-> [f EXCEPT ![loc] = DirNode(mode)]]

\* scandir(3) behind uv_fs_scandir: an error code, or the number of entries.
uv_fs_scandir(f, p) ==
  LET loc == Resolve(p)
  IN IF p = <<>> THEN UV_ENOENT
     ELSE IF ~Exists(f, loc) THEN UV_ENOENT
     ELSE IF ~IsDir(f, loc) THEN UV_ENOTDIR
     ELSE Cardinality(Children(f, loc))

Dirent(f, loc) ==
  [name |-> loc[Len(loc)], type |-> DirentType(Lookup(f, loc)), loc |-> loc]

\* The orders in which the entries of a directory can be enumerated.
Listings(f, p) ==
  LET kids == Children(f, Resolve(p))
      n == Cardinality(kids)
  IN { [k \in 1..n |-> Dirent(f, o[k])] :
         o \in { q \in [1..n -> kids] : \A x, y \in 1..n : q[x] = q[y] => x = y } }

\* The k-th call of uv_fs_scandir_next on a request whose scan returned res
\* and holds ents: the error of a failed scan, the end of the stream after
\* the last entry, and otherwise 0 with the k-th entry written to the dirent.
uv_fs_scandir_next(res, ents, k) ==
  IF res < 0 THEN res
  ELSE IF k > Len(ents) THEN UV_EOF
  ELSE 0

IsPrefix(s, t) == Len(s) <= Len(t) /\ SubSeq(t, 1, Len(s)) = s

\* Where a location lands when src is moved to dst.
Moved(loc, src, dst) == dst \o SubSeq(loc, Len(src) + 1, Len(loc))

\* rename(2) behind uv_fs_rename.
uv_fs_rename(f, path, new_path) ==
  LET src == Resolve(path)
      dst == Resolve(new_path)
      fail(code) == [res |-> code, fs |-> f]
  IN IF path = <<>> \/ new_path = <<>> THEN fail(UV_ENOENT)
     ELSE IF src = Root \/ dst = Root THEN fail(UV_EBUSY)
     ELSE IF ~Exists(f, src) THEN fail(UV_ENOENT)
     ELSE IF ~Exists(f, Parent(dst)) THEN fail(UV_ENOENT)
     ELSE IF ~IsDir(f, Parent(dst)) THEN fail(UV_ENOTDIR)
     ELSE IF (TrailingSlash(path) \/ TrailingSlash(new_path)) /\ ~IsDir(f, src)
       THEN fail(UV_ENOTDIR)
     ELSE IF src = dst THEN [res |-> 0, fs |-> f]
     ELSE IF IsPrefix(src, dst) THEN fail(UV_EINVAL)
     ELSE IF ~Writable(f, Parent(src)) \/ ~Writable(f, Parent(dst))
       THEN fail(UV_EACCES)
     ELSE IF Exists(f, dst) /\ IsDir(f, src) /\ ~IsDir(f, dst)
       THEN fail(UV_ENOTDIR)
     ELSE IF Exists(f, dst) /\ ~IsDir(f, src) /\ IsDir(f, dst)
       THEN fail(UV_EISDIR)
     ELSE IF IsDir(f, dst) /\ Children(f, dst) # {} THEN fail(UV_ENOTEMPTY)
     ELSE [res |-> 0,
           fs |-> [loc \in Locs |->
                     IF IsPrefix(dst, loc)
                       THEN Lookup(f, src \o SubSeq(loc, Len(dst) + 1, Len(loc)))
                     ELSE IF IsPrefix(src, loc) THEN NoEnt
                     ELSE f[loc]]]

\* The moved entries stay inside Locs.
RenameFits(f, path, new_path) ==
  LET src == Resolve(path)
      dst == Resolve(new_path)
  IN \A loc \in Locs :
       (Exists(f, loc) /\ IsPrefix(src, loc) /\ src # Root /\ dst # Root)
         => Moved(loc, src, dst) \in Locs

-----------------------------------------------------------------------------
(* Mode strings: setmode(3) and getmode(3).                                *)

NULL == [null |-> TRUE]

OctalDigits == {"0", "1", "2", "3", "4", "5", "6", "7"}
Digits == OctalDigits \cup {"8", "9"}

DigitValue(c) ==
  CASE c = "0" -> 0 [] c = "1" -> 1 [] c = "2" -> 2 [] c = "3" -> 3
    [] c = "4" -> 4 [] c = "5" -> 5 [] c = "6" -> 6 [] c = "7" -> 7

RECURSIVE Octal(_, _)
Octal(s, acc) ==
  IF s = <<>> THEN acc ELSE Octal(Tail(s), acc * 8 + DigitValue(Head(s)))

\* The mode strings a caller passes in: 0755, 0555 and one that setmode
\* rejects (a digit string that is not octal throughout).
ModeStrings == { <<"7", "5", "5">>, <<"5", "5", "5">>, <<"7", "5", "x">> }

\* setmode: the compiled mode, or NULL when the string does not parse.  Of
\* the symbolic syntax only the rejection of a string starting with neither
\* a digit nor a clause is modelled.
setmode(s) ==
  IF s = <<>> THEN NULL
  ELSE IF Head(s) \in Digits
    THEN IF \A k \in 1..Len(s) : s[k] \in OctalDigits
           THEN [null |-> FALSE, bits |-> Octal(s, 0)]
           ELSE NULL
  ELSE NULL

Crash == [crash |-> TRUE, mode |-> 0]
Returns(m) == [crash |-> FALSE, mode |-> m]

\* getmode(set, 0): the outcomes of the call.  On a NULL set it reads through
\* the null pointer, which is undefined: the process dies, or the call
\* returns some mode.
getmode(set) ==
  IF set = NULL THEN {Crash} \cup { Returns(m) : m \in Modes }
  ELSE {Returns(set.bits)}

-----------------------------------------------------------------------------
(* Errors raised to the caller.                                            *)

NoErr == [raised |-> FALSE]
Error(msg, p, code) == [raised |-> TRUE, msg |-> msg, p |-> p, code |-> code]

\* stop_for_error(message, path, code) of utils.h: raises when the native
\* call returned a non-success code.
stop_for_error(code) == code < 0

-----------------------------------------------------------------------------
(* The frames of the three operations: their arguments and locals.  A      *)
(* frame that is not running holds its empty value.                        *)

NoMk == [path |-> <<>>, mode_str |-> <<>>, out |-> NULL, mode |-> 0, i |-> 0,
         again |-> FALSE]

NoResult == [returned |-> FALSE]
Returned(v) == [returned |-> TRUE, value |-> v]

NoSc == [path |-> <<>>, type |-> -1, recurse |-> FALSE, i |-> 0,
         files |-> <<>>, out |-> <<>>, from |-> <<>>, result |-> NoResult]

NoRn == [path |-> <<>>, new_path |-> <<>>]

-----------------------------------------------------------------------------
(* mkdir_                                                                  *)

\* Whether the result of the creation request raises (dir.cc, lines 26-28).
MkdirCheck_NoTolerance(fd) == stop_for_error(fd)

MkdirCheck_NoStop(fd) == FALSE

MkdirCheck(fd) == IF fd # UV_EEXIST THEN stop_for_error(fd) ELSE FALSE

\* Entry of mkdir_: the mode string is compiled and evaluated once.
MkdirEnter(path, mode_str, again) ==
  LET out == setmode(mode_str)
  IN \E g \in getmode(out) :
       /\ mk' = [path |-> path, mode_str |-> mode_str, out |-> out,
                 mode |-> g.mode, i |-> 0, again |-> again]
       /\ pc' = IF g.crash THEN "crashed" ELSE "loop"
       /\ op' = "mkdir_"
       /\ fs0' = fs
       /\ reqs' = <<>>
       /\ live' = 0
       /\ err' = NoErr
       /\ sc' = NoSc
       /\ rn' = NoRn
       /\ UNCHANGED fs

\* No call is running and no frame is left: the caller is about to call.
Idle == pc = "idle"

MkdirCall ==
  /\ Idle
  /\ \E path \in MkdirVectors, mode_str \in ModeStrings :
       MkdirEnter(path, mode_str, FALSE)

\* The caller repeats a call of mkdir_ that succeeded, with the same
\* arguments.
MkdirAgain ==
  /\ op = "mkdir_" /\ pc = "done" /\ ~mk.again
  /\ MkdirEnter(mk.path, mk.mode_str, TRUE)

\* One iteration of the loop of mkdir_.
MkdirIter ==
  /\ op = "mkdir_" /\ pc = "loop" /\ mk.i < Len(mk.path)
  /\ LET p == mk.path[mk.i + 1]
         r == uv_fs_mkdir(fs, p, mk.mode)
         fd == r.res
     IN /\ fs' = r.fs
        /\ reqs' = Append(reqs, [fn |-> "mkdir", p |-> p, res |-> fd])
        /\ IF MkdirCheck(fd)
             THEN /\ err' = Error("Failed to make directory", p, fd)
                  /\ pc' = "failed"
                  /\ live' = live + 1
                  /\ mk' = mk
             ELSE /\ err' = err
                  /\ pc' = pc
                  /\ live' = (live + 1) - 1
                  /\ mk' = [mk EXCEPT !.i = @ + 1]
  /\ UNCHANGED <<op, sc, rn, fs0>>

MkdirReturn ==
  /\ op = "mkdir_" /\ pc = "loop" /\ mk.i >= Len(mk.path)
  /\ pc' = "done"
  /\ UNCHANGED <<fs, op, mk, sc, rn, fs0, reqs, live, err>>

-----------------------------------------------------------------------------
(* scandir_                                                                *)

\* The type filters a caller passes in: none, files, directories.
TypeChoices == {-1, UV_DIRENT_FILE, UV_DIRENT_DIR}

\* What an uv_dirent_t that was never written can hold.
GarbageDirents ==
  { [name |-> <<"?">>, type |-> t, loc |-> Root] :
      t \in {UV_DIRENT_UNKNOWN, UV_DIRENT_FILE, UV_DIRENT_DIR} }

\* The filter of line 52.
Accept_AtLeast(file_type, t) == file_type = -1 \/ t >= file_type

Accept(file_type, t) == file_type = -1 \/ t = file_type

\* The joined path of lines 57-65.
Join_AlwaysSeparator(p, name) == p \o <<SLASH>> \o name

Join(p, name) ==
  IF p = DOT THEN name
  ELSE IF p[Len(p)] = SLASH THEN p \o name
  ELSE p \o <<SLASH>> \o name

\* files.push_back
PushBack_Front(files, s) == <<s>> \o files

PushBack(files, s) == Append(files, s)

\* Whether the result of opening the stream raises (line 47).
OpenCheck_NonZero(res) == res # 0

OpenCheck(res) == stop_for_error(res)

\* Whether the result of a step raises (lines 67-69).
StepCheck(next_res) ==
  IF next_res # UV_EOF THEN stop_for_error(next_res) ELSE FALSE

\* The while loop of lines 51-71, entered after the k-th call of
\* uv_fs_scandir_next returned next_res and left the dirent as e.  st holds
\* files, the origin of each of its strings and the step results seen.
RECURSIVE ScanWhile(_, _, _, _, _)
ScanWhile(st, e, next_res, k, it) ==
  LET seen == [st EXCEPT !.steps = Append(@, next_res)]
  IN IF next_res = UV_EOF THEN [seen EXCEPT !.raised = FALSE]
     ELSE
       LET pushed ==
             IF Accept(it.file_type, e.type)
               THEN [seen EXCEPT
                       !.files = PushBack(@, Join(it.p, e.name)),
                       !.from = Append(@, [pi |-> it.pi, e |-> e])]
               ELSE seen
       IN IF StepCheck(next_res)
            THEN [pushed EXCEPT !.raised = TRUE, !.code = next_res]
            ELSE
              LET nr == uv_fs_scandir_next(it.res, it.ents, k + 1)
                  e2 == IF nr = 0 THEN it.ents[k + 1] ELSE e
              IN ScanWhile(pushed, e2, nr, k + 1, it)

\* The entries the request of path i holds: those the scan of that one
\* directory produced, whatever s.recurse says (lines 46-50).
Scanned_Recursing(s, f, ents) ==
  LET d == Resolve(s.path[s.i + 1])
      deep == { loc \in Locs : /\ Exists(f, loc)
                               /\ IsPrefix(d, loc)
                               /\ Len(loc) > Len(d) + 1 }
  IN IF s.recurse /\ deep # {}
       THEN Append(ents, Dirent(f, CHOOSE loc \in deep : TRUE))
       ELSE ents

Scanned(s, f, ents) == ents

\* One iteration of the outer loop of scandir_ (lines 43-75) on the frame s,
\* with the filesystem f, the enumeration order ents and the initial content
\* e0 of the dirent.
ScandirBody(s, f, ents, e0) ==
  LET p == s.path[s.i + 1]
      res == uv_fs_scandir(f, p)
      all == Scanned(s, f, ents)
      nr == uv_fs_scandir_next(res, all, 1)
      e1 == IF nr = 0 THEN all[1] ELSE e0
      w == ScanWhile([files |-> s.files, from |-> s.from, steps |-> <<>>,
                      raised |-> FALSE, code |-> 0],
                     e1, nr, 1,
                     [p |-> p, pi |-> s.i + 1, file_type |-> s.type,
                      res |-> res, ents |-> all])
  IN IF OpenCheck(res)
       THEN [sc |-> s, pc |-> "failed", leak |-> 1,
             err |-> Error("Failed to search directory", p, res),
             req |-> [fn |-> "scandir", p |-> p, res |-> res,
                      ents |-> <<>>, steps |-> <<>>]]
     ELSE IF w.raised
       THEN [sc |-> [s EXCEPT !.files = w.files, !.from = w.from],
             pc |-> "failed", leak |-> 1,
             err |-> Error("Failed to search directory", p, w.code),
             req |-> [fn |-> "scandir", p |-> p, res |-> res,
                      ents |-> ents, steps |-> w.steps]]
     ELSE [sc |-> [s EXCEPT !.files = w.files, !.from = w.from,
                            !.i = @ + 1,
                            !.out = [@ EXCEPT ![s.i + 1] = Returned(w.files)]],
           pc |-> "loop", leak |-> 0, err |-> NoErr,
           req |-> [fn |-> "scandir", p |-> p, res |-> res,
                    ents |-> ents, steps |-> w.steps]]

\* The inputs of one iteration that the native library decides.  A step
\* that returns 0 writes the dirent, and the loop body runs only after such a
\* step unless the scan itself had failed: the initial content of the dirent
\* is drawn for that case alone.
StepInputs(f, p) ==
  LET res == uv_fs_scandir(f, p)
      unread == CHOOSE e \in GarbageDirents : e.type = UV_DIRENT_UNKNOWN
  IN { [ents |-> ents, e0 |-> e0] :
         ents \in (IF res < 0 THEN {<<>>} ELSE Listings(f, p)),
         e0 \in (IF res < 0 THEN GarbageDirents ELSE {unread}) }

ScandirCall ==
  /\ Idle
  /\ \E path \in ScanVectors, type \in TypeChoices, recurse \in BOOLEAN :
       sc' = [path |-> path, type |-> type, recurse |-> recurse, i |-> 0,
              files |-> <<>>, out |-> [k \in 1..Len(path) |-> NoResult],
              from |-> <<>>, result |-> NoResult]
  /\ op' = "scandir_"
  /\ pc' = "loop"
  /\ fs0' = fs
  /\ reqs' = <<>>
  /\ live' = 0
  /\ err' = NoErr
  /\ mk' = NoMk
  /\ rn' = NoRn
  /\ UNCHANGED fs

ScandirIter ==
  /\ op = "scandir_" /\ pc = "loop" /\ sc.i < Len(sc.path)
  /\ \E x \in StepInputs(fs, sc.path[sc.i + 1]) :
       LET r == ScandirBody(sc, fs, x.ents, x.e0)
       IN /\ sc' = r.sc
          /\ pc' = r.pc
          /\ err' = IF r.pc = "failed" THEN r.err ELSE err
          /\ live' = live + r.leak
          /\ reqs' = Append(reqs, r.req)
  /\ UNCHANGED <<fs, op, mk, rn, fs0>>

\* return wrap(files)
ScandirResult(s) == [s EXCEPT !.result = Returned(s.files)]

ScandirReturn ==
  /\ op = "scandir_" /\ pc = "loop" /\ sc.i >= Len(sc.path)
  /\ sc' = ScandirResult(sc)
  /\ pc' = "done"
  /\ UNCHANGED <<fs, op, mk, rn, fs0, reqs, live, err>>

-----------------------------------------------------------------------------
(* file_rename_                                                            *)

\* Whether the result of the rename request raises: it is never looked at
\* (rename.cc, lines 9-10).
RenameCheck_Stops(res) == stop_for_error(res)

RenameCheck(res) == FALSE

file_rename_ ==
  /\ Idle
  /\ \E path \in PathChoices, new_path \in PathChoices :
       /\ RenameFits(fs, path, new_path)
       /\ LET r == uv_fs_rename(fs, path, new_path)
          IN /\ fs' = r.fs
             /\ rn' = [path |-> path, new_path |-> new_path]
             /\ reqs' = << [fn |-> "rename", p |-> path, res |-> r.res] >>
             /\ IF RenameCheck(r.res)
                  THEN /\ pc' = "failed"
                       /\ err' = Error("Failed to rename", path, r.res)
                  ELSE /\ pc' = "done"
                       /\ err' = NoErr
  /\ op' = "file_rename_"
  /\ fs0' = fs
  /\ live' = 1
  /\ mk' = NoMk
  /\ sc' = NoSc

-----------------------------------------------------------------------------
(* The specification.                                                      *)

\* A filesystem given by the nodes at a, a/c and b; b/c is absent.
MakeFs(a, ac, b) ==
  [loc \in Locs |->
     IF loc = <<NameA>> THEN a
     ELSE IF loc = <<NameA, NameC>> THEN ac
     ELSE IF loc = <<NameB>> THEN b
     ELSE NoEnt]

\* The filesystems a first call can find.
InitFileSystems ==
  { MakeFs(NoEnt, NoEnt, NoEnt),
    MakeFs(DirNode(493), RegFile, RegFile),
    MakeFs(DirNode(493), DirNode(493), DirNode(365)),
    MakeFs(RegFile, NoEnt, NoEnt) }

Init ==
  /\ fs \in InitFileSystems
  /\ op = "none"
  /\ pc = "idle"
  /\ mk = NoMk
  /\ sc = NoSc
  /\ rn = NoRn
  /\ fs0 = fs
  /\ reqs = <<>>
  /\ live = 0
  /\ err = NoErr

\* The call has returned or raised; its frame is gone and the caller goes on
\* with the filesystem as the call left it.
CallerResumes ==
  /\ pc \in {"done", "failed"}
  /\ pc' = "idle"
  /\ op' = "none"
  /\ mk' = NoMk
  /\ sc' = NoSc
  /\ rn' = NoRn
  /\ fs0' = fs
  /\ reqs' = <<>>
  /\ live' = 0
  /\ err' = NoErr
  /\ UNCHANGED fs

Next ==
  \/ CallerResumes
  \/ MkdirCall
  \/ MkdirAgain
  \/ MkdirIter
  \/ MkdirReturn
  \/ ScandirCall
  \/ ScandirIter
  \/ ScandirReturn
  \/ file_rename_

Spec == Init /\ [][Next]_vars

-----------------------------------------------------------------------------
(* The claims.                                                             *)

Terminated == pc \in {"done", "failed"}

InMkdir == op = "mkdir_"
InScandir == op = "scandir_"
InRename == op = "file_rename_"

\* The locations whose node differs between two filesystems.
Changed(f, g) == { loc \in Locs : f[loc] # g[loc] }

\* C1: make_directory never fails because a directory already exists.  A
\* creation request that reports "already exists" raises no error, changes
\* nothing in the filesystem (only the requests that returned 0 change it, one
\* location each) and is followed by the requests for the remaining paths; a
\* call repeated with the same paths after it succeeded succeeds again and
\* leaves the filesystem as the first call left it.
C1_ExistingIsTolerated ==
  InMkdir =>
    /\ \A k \in 1..Len(reqs) :
         reqs[k].res = UV_EEXIST =>
           /\ ~(pc = "failed" /\ k = Len(reqs))
           /\ (Terminated /\ k < Len(mk.path)) => Len(reqs) > k
    /\ Cardinality(Changed(fs0, fs))
         = Cardinality({ k \in 1..Len(reqs) : reqs[k].res = 0 })
    /\ (mk.again /\ pc # "crashed") =>
         /\ pc # "failed"
         /\ fs = fs0
         /\ \A k \in 1..Len(reqs) : reqs[k].res = UV_EEXIST

\* A repeated call over three different paths has returned.
C1_Witness ==
  /\ InMkdir /\ pc = "done" /\ mk.again
  /\ Len(reqs) = 3
  /\ Cardinality({ reqs[k].p : k \in 1..3 }) = 3

\* C2: make_directory is fail-fast in input order.  The requests are issued
\* for the paths in sequence order; a request that returns a non-zero result
\* other than "already exists" is the last one of the call, which fails with
\* an error carrying that path; the directories created before it, and all
\* that existed when the call began, are still there.
C2_FailFastInOrder ==
  InMkdir =>
    /\ Len(reqs) <= Len(mk.path)
    /\ \A k \in 1..Len(reqs) : reqs[k].p = mk.path[k]
    /\ \A k \in 1..Len(reqs) :
         (reqs[k].res # 0 /\ reqs[k].res # UV_EEXIST) =>
           /\ pc = "failed"
           /\ k = Len(reqs)
           /\ err = Error("Failed to make directory", mk.path[k], reqs[k].res)
    /\ pc = "failed" =>
         /\ err.raised
         /\ reqs[Len(reqs)].res \notin {0, UV_EEXIST}
    /\ \A k \in 1..Len(reqs) :
         reqs[k].res = 0 => IsDir(fs, Resolve(reqs[k].p))
    /\ \A loc \in Locs : Exists(fs0, loc) => fs[loc] = fs0[loc]

\* The second of three paths failed after the first was created.
C2_Witness ==
  /\ InMkdir /\ pc = "failed"
  /\ Len(mk.path) = 3
  /\ Len(reqs) = 2
  /\ reqs[1].res = 0
  /\ reqs[2].res = UV_ENOENT
  /\ IsDir(fs, Resolve(mk.path[1]))
  /\ ~IsDir(fs0, Resolve(mk.path[1]))

\* C3: when the mode string cannot be parsed, make_directory fails before
\* any directory is touched: no creation request is issued and the
\* filesystem is as the call found it.
C3_BadModeTouchesNothing ==
  (InMkdir /\ setmode(mk.mode_str) = NULL) =>
    /\ reqs = <<>>
    /\ fs = fs0

Last(q) == q[Len(q)]

HasDotSlashPrefix(r) == Len(r) >= 2 /\ r[1] = "." /\ r[2] = SLASH

\* The separators of r from position m on, up to the first other character.
RECURSIVE SeparatorsAt(_, _)
SeparatorsAt(r, m) ==
  IF m > Len(r) \/ r[m] # SLASH THEN 0 ELSE 1 + SeparatorsAt(r, m + 1)

\* C4: every string scan_directory returns for an entry named n found under
\* the input path p is n alone when p is ".", p followed directly by n when p
\* ends with the separator, and otherwise p, one separator, then n.  So no
\* result for "." starts with "./", no result for a path ending in the
\* separator has two separators at the join, and for any other path exactly
\* one separator stands between p and n.
C4_JoinRule ==
  (InScandir /\ sc.result.returned) =>
    /\ Len(sc.result.value) = Len(sc.from)
    /\ \A j \in 1..Len(sc.from) :
         LET p == sc.path[sc.from[j].pi]
             n == sc.from[j].e.name
             r == sc.result.value[j]
         IN /\ p = DOT => (r = n /\ ~HasDotSlashPrefix(r))
            /\ (p # DOT /\ Last(p) = SLASH) =>
                 /\ r = p \o n
                 /\ SeparatorsAt(r, Len(p)) = 1
            /\ (p # DOT /\ Last(p) # SLASH) =>
                 /\ r = p \o <<SLASH>> \o n
                 /\ SeparatorsAt(r, Len(p) + 1) = 1

\* A scan of ".", of a path ending in the separator and of one that does not
\* returned entries of all three.
C4_Witness ==
  /\ InScandir /\ sc.result.returned
  /\ sc.path = << <<".">>, <<"a", "/">>, <<"a">> >>
  /\ \A k \in 1..3 : \E j \in 1..Len(sc.from) : sc.from[j].pi = k

\* The entries, with the index of their input path, that the enumerations of
\* the call produced.
Enumerated ==
  UNION { { [pi |-> k, e |-> reqs[k].ents[m]] : m \in 1..Len(reqs[k].ents) } :
            k \in 1..Len(reqs) }

Delivered == { sc.from[j] : j \in 1..Len(sc.from) }

\* C5: the entry-type filter is an exact equality filter.  With the filter -1
\* every enumerated entry is in the result; with a type tag t an enumerated
\* entry is in the result if and only if its type is t.
C5_ExactTypeFilter ==
  (InScandir /\ sc.result.returned) =>
    /\ Len(sc.result.value) = Len(sc.from)
    /\ Delivered \subseteq Enumerated
    /\ \A x \in Enumerated :
         x \in Delivered <=> (sc.type = -1 \/ x.e.type = sc.type)

\* A scan filtered by "directory" met a file and a directory.
C5_Witness ==
  /\ InScandir /\ sc.result.returned
  /\ sc.type = UV_DIRENT_DIR
  /\ \E x \in Enumerated : x.e.type = UV_DIRENT_FILE
  /\ \E x \in Enumerated : x.e.type = UV_DIRENT_DIR
  /\ sc.result.value # <<>>

\* The joined path the specification prescribes.
JoinRule(p, n) ==
  IF p = DOT THEN n
  ELSE IF Last(p) = SLASH THEN p \o n
  ELSE p \o <<SLASH>> \o n

Passes(e) == sc.type = -1 \/ e.type = sc.type

\* The accepted entries of the k-th input path, joined, in enumeration order.
Bucket(k) ==
  LET acc == SelectSeq(reqs[k].ents, Passes)
  IN [m \in 1..Len(acc) |-> JoinRule(reqs[k].p, acc[m].name)]

RECURSIVE Flat(_)
Flat(k) == IF k = 0 THEN <<>> ELSE Flat(k - 1) \o Bucket(k)

\* C6: on success scan_directory returns the concatenation, in input-path
\* order, of each input path's accepted entries in enumeration order, each
\* once; its length is the sum of the accepted-entry counts, and it is empty
\* when every directory scanned is empty.
C6_FlatConcatenation ==
  (InScandir /\ sc.result.returned) =>
    /\ pc = "done"
    /\ Len(reqs) = Len(sc.path)
    /\ \A k \in 1..Len(reqs) : reqs[k].p = sc.path[k]
    /\ sc.result.value = Flat(Len(reqs))
    /\ (\A k \in 1..Len(reqs) : reqs[k].ents = <<>>) => sc.result.value = <<>>

\* Three paths were scanned, the first with two accepted entries, the second
\* with an entry but none accepted and the third with two, enumerated in the
\* other order, and four strings were returned.
C6_Witness ==
  /\ InScandir /\ sc.result.returned
  /\ Len(sc.path) = 3
  /\ Len(Bucket(1)) = 2
  /\ Len(reqs[2].ents) >= 1
  /\ Len(Bucket(2)) = 0
  /\ Len(Bucket(3)) = 2
  /\ Bucket(3) # Bucket(1)
  /\ Len(sc.result.value) = 4

\* The step results of the k-th scan that are errors: neither 0 nor the end
\* of the stream.
StepErrors(k) ==
  { m \in 1..Len(reqs[k].steps) : reqs[k].steps[m] \notin {0, UV_EOF} }

\* What a fatal result of the k-th scan amounts to: the call has failed at
\* that path, which is the last one opened, and returns nothing.
FatalAt(k) ==
  /\ pc = "failed"
  /\ k = Len(reqs)
  /\ err.raised
  /\ err.p = sc.path[k]
  /\ ~sc.result.returned

\* C7 as stated: any non-zero result from opening the directory stream of an
\* input path or from stepping it (the end of the stream aside) is fatal.
C7_NonZeroIsFatal ==
  InScandir =>
    \A k \in 1..Len(reqs) :
      (reqs[k].res # 0 \/ StepErrors(k) # {}) => FatalAt(k)

\* C7, amended: any negative result (a native error code) from opening the
\* directory stream of an input path, or from stepping it other than the end
\* of the stream, is fatal: the call fails with an error carrying that path,
\* no later input path is opened, and no result is returned, whatever was
\* accumulated.  A positive result of opening is the number of entries found
\* and is not a failure: a call fails only on a negative result.
C7_ErrorIsFatal ==
  InScandir =>
    /\ \A k \in 1..Len(reqs) :
         (reqs[k].res < 0 \/ StepErrors(k) # {}) => FatalAt(k)
    /\ \A k \in 1..Len(reqs) : reqs[k].p = sc.path[k]
    /\ pc = "failed" =>
         /\ Len(reqs) = sc.i + 1
         /\ FatalAt(Len(reqs))
         /\ (reqs[Len(reqs)].res < 0 \/ StepErrors(Len(reqs)) # {})
    /\ sc.result.returned => pc = "done"

\* The second of three paths could not be opened after entries of the first
\* path had been accumulated.
C7_Witness ==
  /\ InScandir /\ pc = "failed"
  /\ Len(sc.path) = 3
  /\ Len(reqs) = 2
  /\ reqs[1].res > 0
  /\ reqs[2].res < 0
  /\ sc.files # <<>>

\* C8: rename_file never surfaces a failure.  Whatever the native rename
\* request returns, the operation returns normally with no error; when the
\* request failed, the filesystem is as it was (the source is where it was
\* and the destination is unchanged).
C8_RenameNeverFails ==
  InRename =>
    /\ pc = "done"
    /\ ~err.raised
    /\ Len(reqs) = 1
    /\ reqs[1].res # 0 =>
         /\ fs = fs0
         /\ Lookup(fs, Resolve(rn.path)) = Lookup(fs0, Resolve(rn.path))
         /\ Lookup(fs, Resolve(rn.new_path)) = Lookup(fs0, Resolve(rn.new_path))

\* A rename of an existing source failed.
C8_Witness ==
  /\ InRename /\ pc = "done"
  /\ reqs[1].res < 0
  /\ rn.path # <<>>
  /\ Resolve(rn.path) # Root
  /\ Exists(fs, Resolve(rn.path))

Flip(s) == [s EXCEPT !.recurse = ~@]

\* C9: the recurse flag of scan_directory is inert.  Every step of the call
\* does with recurse flipped exactly what it does otherwise, on every input
\* of the native library, so the two calls end alike; and every entry
\* delivered lies directly in its input path, never in a subdirectory.
C9_RecurseIsInert ==
  InScandir =>
    /\ (pc = "loop" /\ sc.i < Len(sc.path)) =>
         \A x \in StepInputs(fs, sc.path[sc.i + 1]) :
           LET r == ScandirBody(sc, fs, x.ents, x.e0)
               t == ScandirBody(Flip(sc), fs, x.ents, x.e0)
           IN t = [r EXCEPT !.sc = Flip(r.sc)]
    /\ (pc = "loop" /\ sc.i >= Len(sc.path)) =>
         ScandirResult(Flip(sc)) = Flip(ScandirResult(sc))
    /\ sc.result.returned =>
         \A j \in 1..Len(sc.from) :
           Parent(sc.from[j].e.loc) = Resolve(sc.path[sc.from[j].pi])

\* A scan of "." with recurse set returned entries while a subdirectory of
\* "." had an entry of its own.
C9_Witness ==
  /\ InScandir /\ sc.result.returned
  /\ sc.recurse
  /\ Len(sc.path) >= 1
  /\ sc.path[1] = DOT
  /\ Exists(fs, <<NameA, NameC>>)
  /\ sc.result.value # <<>>

\* C10: every native request an operation initialises is released by a
\* cleanup call before the operation ends, however it ends.
C10_RequestsCleanedUp ==
  Terminated => live = 0

====
